---- MODULE Spec2Model ----
(***************************************************************************)
(* decorated_watchdog: FSWatcher registers per-path, per-event-type        *)
(* coroutine handlers (on_any / on_moved / on_created / on_deleted /       *)
(* on_modified), subscribes one FSAsyncEventHandler per registration to a  *)
(* watchdog Observer, and hands matching file-system events from the       *)
(* observer thread to an asyncio event loop by call_soon_threadsafe.       *)
(*                                                                         *)
(* Threads of the model:                                                   *)
(*   - the caller thread, which also drives the event loop inside watch(); *)
(*   - the observer (watcher) thread, which takes queued events and calls  *)
(*     dispatch of every adapter subscribed for the event's watch;         *)
(*   - the emitters of the observer, which queue raw events.               *)
(***************************************************************************)
EXTENDS Integers, Sequences, FiniteSets, TLC

\* ------------------------------------------------------------------ bounds
MaxCallbacks == 2       \* registrations made through the decorators
MaxEvents == 2          \* raw notifications the emitters produce
MaxCalls == 3           \* lifecycle calls (watch, start, stop, run, closing the loop)

\* ------------------------------------------------------- program constants
EVENT_TYPE_ANY == "any"
EVENT_TYPE_MOVED == "moved"
EVENT_TYPE_DELETED == "deleted"
EVENT_TYPE_CREATED == "created"
EVENT_TYPE_MODIFIED == "modified"
TICKS == 20

\* The event_type values a watchdog FileSystemEvent carries.
EventKinds ==
    {EVENT_TYPE_MOVED, EVENT_TYPE_DELETED, EVENT_TYPE_CREATED, EVENT_TYPE_MODIFIED}

\* Paths are sequences of components: /tmp/watched is <<"tmp", "watched">>.
WatchPaths == {<<"tmp", "watched">>, <<"tmp", "other">>}
EventPaths ==
    {<<"tmp", "watched", "file.txt">>, <<"tmp", "other", "file.txt">>, <<"tmp", "watched">>}

\* Handler functions a caller may decorate; inspect.iscoroutinefunction tells
\* the `async def` ones from the plain ones.
HandlerFns == {"async_handler", "sync_handler"}
iscoroutinefunction(f) == f = "async_handler"

\* What the body of a coroutine handler may do once its task is started:
\* return, raise, await something that never completes, or never give the
\* loop's thread back (a blocking call, an endless computation).
HandlerFates == {"returns", "raises", "suspends", "blocks"}

\* A watch with recursive=True reports every event at or below its path.
IsAncestorOrEqual(p, q) == Len(p) <= Len(q) /\ SubSeq(q, 1, Len(p)) = p

FSCallback(t, p, f) == [event_type |-> t, event_path |-> p, callback_function |-> f]

VARIABLES
    callbacks,     \* FSWatcher._callbacks: the registry, a list of FSCallback
    owner,         \* history: the FSWatcher instance each registration was made through
    lastReg,       \* history: the latest decorator call and what it returned
    adapters,      \* every FSAsyncEventHandler built so far (index = identity)
    handlers,      \* Observer._handlers: the adapters currently subscribed
    threadState,   \* observer thread: "new" (not started), "alive", "dead"
    stoppedEvent,  \* Observer._stopped_event
    eventQueue,    \* Observer.event_queue: buffered event ids
    emitted,       \* raw notifications produced so far (index = event id)
    wpc,           \* observer thread: "idle", "pass" (dispatching one event,
                   \*   holding the observer lock), "in_dispatch" (inside one
                   \*   adapter's dispatch, request submitted, not yet returned)
    cur,           \* the event id the observer thread is dispatching (0: none)
    pending,       \* adapters still to be called for cur
    inDisp,        \* the adapter whose dispatch is executing (0: none)
    loopClosed,    \* the event loop was closed
    ready,         \* loop._ready: callbacks queued on the event loop
    ntodo,         \* callbacks left in the current iteration of the loop
    stopping,      \* loop._stopping: the loop ends after this iteration
    sleeping,      \* run_async is suspended in asyncio.sleep
    mpc,           \* caller thread: "free", "loop" (inside watch, the loop
                   \*   runs), "stop_lock" / "stop_join" (inside stop),
                   \*   "blocked" (inside a handler that never yields)
    inRunAsync,    \* the stop in progress was called by run_async
    tick,          \* sleeps of run_async completed
    lastCall,      \* the lifecycle call made last: "watch", "start", "stop", "run"
    outcome,       \* "pending" while it runs, then how it ended: "ok",
                   \*   "Exception" (run_async's own), "RuntimeError"
    pre,           \* history: the observer's state when that call was made
    preCallbacks,  \* history: the registry when that call was made
    stopCalledAt,  \* history: the number of requests submitted when stop was
                   \*   last called (directly or by run_async)
    calls,         \* lifecycle calls the caller has made
    quota,         \* what the environment does at most in this behaviour:
                   \*   [regs, events, calls, watchers, fates, paths, kinds]
    passes,        \* history: the events the observer thread has dispatched
                   \*   completely, each with the adapters then subscribed
    submitted,     \* history: scheduling requests, in submission order
    executed,      \* history: handler bodies begun, with the executing thread,
                   \*   what the body did and the number of requests
                   \*   submitted when it began
    stopReturned   \* history: some stop() has returned normally

vars == <<callbacks, owner, lastReg, preCallbacks, stopCalledAt, adapters, handlers, threadState, stoppedEvent, eventQueue,
          emitted, wpc, cur, pending, inDisp, loopClosed, ready, ntodo, stopping,
          sleeping, mpc, inRunAsync, tick, lastCall, outcome, pre, calls, quota,
          passes, submitted,
          executed, stopReturned>>

registryVars == <<callbacks, owner, lastReg>>
observerVars == <<adapters, handlers, threadState, stoppedEvent>>
watcherVars == <<eventQueue, wpc, cur, pending, inDisp>>
loopVars == <<loopClosed, ready, ntodo, stopping, sleeping>>
callVars == <<mpc, inRunAsync, tick, lastCall, outcome, pre, preCallbacks, stopCalledAt>>
budgetVars == <<calls, quota>>
historyVars == <<passes, submitted, executed, stopReturned>>

Start ==
    /\ callbacks = <<>>
    /\ owner = <<>>
    /\ lastReg = [decorator |-> "none", path |-> <<>>, handler |-> "none",
                  returned |-> "none"]
    /\ preCallbacks = <<>>
    /\ stopCalledAt = 0
    /\ adapters = <<>>
    /\ handlers = {}
    /\ threadState = "new"
    /\ stoppedEvent = FALSE
    /\ eventQueue = <<>>
    /\ emitted = <<>>
    /\ wpc = "idle"
    /\ cur = 0
    /\ pending = {}
    /\ inDisp = 0
    /\ loopClosed = FALSE
    /\ ready = <<>>
    /\ ntodo = 0
    /\ stopping = FALSE
    /\ sleeping = FALSE
    /\ mpc = "free"
    /\ inRunAsync = FALSE
    /\ tick = 0
    /\ lastCall = "none"
    /\ outcome = "none"
    /\ pre = [threadState |-> "new", stoppedEvent |-> FALSE, handlers |-> {}]
    /\ calls = 0
    /\ passes = {}
    /\ submitted = <<>>
    /\ executed = <<>>
    /\ stopReturned = FALSE

\* The caller registers, makes lifecycle calls and the file system changes, each
\* a bounded number of times.
Init ==
    /\ Start
    /\ quota = [regs |-> MaxCallbacks, events |-> 1, calls |-> MaxCalls,
                watchers |-> {"w1"}, fates |-> {"returns"},
                paths |-> WatchPaths, kinds |-> EventKinds]

\* Several registrations through one instance, one lifecycle call.
InitRegistry ==
    /\ Start
    /\ quota = [regs |-> MaxCallbacks, events |-> 1, calls |-> 1,
                watchers |-> {"w1"}, fates |-> {"returns"},
                paths |-> {<<"tmp", "watched">>}, kinds |-> {EVENT_TYPE_CREATED}]

\* One registration, one bounded run, notifications of one kind.
InitLive ==
    /\ Start
    /\ quota = [regs |-> 1, events |-> MaxEvents, calls |-> 1,
                watchers |-> {"w1"}, fates |-> {"returns"},
                paths |-> {<<"tmp", "watched">>}, kinds |-> {EVENT_TYPE_CREATED}]

\* Two FSWatcher instances, registrations through either, one lifecycle call.
InitSessions ==
    /\ Start
    /\ quota = [regs |-> MaxCallbacks, events |-> 1, calls |-> 1,
                watchers |-> {"w1", "w2"}, fates |-> {"returns"},
                paths |-> {<<"tmp", "watched">>}, kinds |-> {EVENT_TYPE_CREATED}]

\* One registration, one bounded run, a burst of raw notifications, handlers
\* that return, raise, never complete or block the loop.
InitHandlers ==
    /\ Start
    /\ quota = [regs |-> 1, events |-> MaxEvents, calls |-> 1,
                watchers |-> {"w1"}, fates |-> HandlerFates,
                paths |-> {<<"tmp", "watched">>},
                kinds |-> {EVENT_TYPE_CREATED, EVENT_TYPE_MODIFIED}]

\* One registration, one bounded run, a burst of raw notifications.
InitRun ==
    /\ Start
    /\ quota = [regs |-> 1, events |-> MaxEvents, calls |-> 1,
                watchers |-> {"w1"}, fates |-> {"returns"},
                paths |-> {<<"tmp", "watched">>},
                kinds |-> {EVENT_TYPE_CREATED, EVENT_TYPE_MODIFIED}]

\* ------------------------------------------------------------ registration
\* A decorator that puts the new FSCallback in front of the registry.
RegisterInFront(w, d, t, p, f) ==
    /\ mpc = "free"
    /\ Len(callbacks) < quota.regs
    /\ callbacks' = <<FSCallback(t, p, f)>> \o callbacks
    /\ owner' = <<w>> \o owner
    /\ lastReg' = [decorator |-> d, path |-> p, handler |-> f, returned |-> f]
    /\ UNCHANGED <<observerVars, watcherVars, emitted, loopVars, callVars, budgetVars,
                   historyVars>>

\* The decorator returned by w.on_xxx(path), applied to handler f: appends one
\* FSCallback to self._callbacks and returns the handler; no check of the
\* handler is made here. _callbacks is an attribute of the class FSWatcher: the
\* one list is what every instance reaches as self._callbacks.
Register(w, d, t, p, f) ==
    /\ mpc = "free"
    /\ Len(callbacks) < quota.regs
    /\ callbacks' = Append(callbacks, FSCallback(t, p, f))
    /\ owner' = Append(owner, w)
    /\ lastReg' = [decorator |-> d, path |-> p, handler |-> f, returned |-> f]
    /\ UNCHANGED <<observerVars, watcherVars, emitted, loopVars, callVars, budgetVars,
                   historyVars>>

on_any ==
    \E w \in quota.watchers, p \in quota.paths, f \in HandlerFns :
        Register(w, "on_any", EVENT_TYPE_ANY, p, f)
on_moved ==
    \E w \in quota.watchers, p \in quota.paths, f \in HandlerFns :
        Register(w, "on_moved", EVENT_TYPE_MOVED, p, f)
on_created ==
    \E w \in quota.watchers, p \in quota.paths, f \in HandlerFns :
        Register(w, "on_created", EVENT_TYPE_CREATED, p, f)
on_deleted ==
    \E w \in quota.watchers, p \in quota.paths, f \in HandlerFns :
        Register(w, "on_deleted", EVENT_TYPE_DELETED, p, f)
on_modified ==
    \E w \in quota.watchers, p \in quota.paths, f \in HandlerFns :
        Register(w, "on_modified", EVENT_TYPE_MODIFIED, p, f)

\* The FSWatcher instances of a program with two sessions.
Watchers == {"w1", "w2"}

\* self._callbacks as instance w reads it. _callbacks is declared in the class
\* body (line 47) and never assigned on an instance (the model class takes an
\* underscore name for a class attribute, not for a field), so every
\* instance reads the one list of the class. The same holds for _observer
\* (line 46) and _loop (line 48).
InstanceCallbacks(w) == callbacks

\* ------------------------------------------------------ observer (watchdog)
\* asyncio.get_event_loop() as the module is imported: the thread's current
\* event loop, one object however often it is asked for.
get_event_loop == "default_loop"

\* FSWatcher._loop (line 48): the loop watch() drives.
FSWatcher_loop == get_event_loop

\* The default of the parameter `loop` of FSAsyncEventHandler.__init__
\* (line 32); run_async passes no loop, so every adapter gets this one.
FSAsyncEventHandler_loop == get_event_loop

\* An adapter built on an event loop of its own.
AdapterOnOwnLoop(cb, i) ==
    [event_type_trigger |-> cb.event_type,
     callback_function |-> cb.callback_function,
     path |-> cb.event_path,
     loop |-> "own_loop",
     reg |-> i]

\* FSAsyncEventHandler.__init__: the adapter built for one FSCallback.
Adapter(cb, i) ==
    [event_type_trigger |-> cb.event_type,
     callback_function |-> cb.callback_function,
     path |-> cb.event_path,
     loop |-> FSAsyncEventHandler_loop,
     reg |-> i]

\* run_async without its iscoroutinefunction test: every callback is subscribed.
SubscribeAll(cbs) == Len(cbs)

\* The for loop of run_async: callbacks are subscribed one by one, in registry
\* order, until one is found whose handler is no coroutine function. The
\* number of callbacks subscribed when the loop ends (normally or by raising).
RECURSIVE SubscribedPrefix(_)
SubscribedPrefix(cbs) ==
    IF cbs = <<>> \/ ~iscoroutinefunction(Head(cbs).callback_function)
    THEN 0
    ELSE 1 + SubscribedPrefix(Tail(cbs))

\* self.start() (line 67) is reached only when the for loop has run through
\* the whole registry: k callbacks subscribed out of n.
ReachesStart(k, n) == k = n

\* Thread.start(): a thread can be started once.
CanStart(ts) == ts = "new"

\* stop() without the join: it returns whatever the thread is doing.
JoinNoWait(ts) == TRUE

\* Thread.join(): returns once the thread has terminated.
JoinReturns(ts) == ts = "dead"

\* The observer's state as a lifecycle call finds it.
Snapshot == [threadState |-> threadState, stoppedEvent |-> stoppedEvent,
             handlers |-> handlers]

Item(k, a, n) == [kind |-> k, adapter |-> a, event |-> n]

\* The watch path whose emitter reports an event at path q.
Covers(a, n) == IsAncestorOrEqual(adapters[a].path, emitted[n].src_path)

\* ------------------------------------------------------- lifecycle (caller)
\* FSWatcher.watch: run_until_complete(run_async()) on the session's loop.
watch ==
    /\ mpc = "free"
    /\ calls < quota.calls
    /\ calls' = calls + 1
    /\ UNCHANGED quota
    /\ lastCall' = "watch"
    /\ pre' = Snapshot
    /\ preCallbacks' = callbacks
    /\ UNCHANGED stopCalledAt
    /\ IF loopClosed
       THEN /\ outcome' = "RuntimeError"
            /\ UNCHANGED <<mpc, ready, ntodo, stopping, sleeping, tick>>
       ELSE /\ outcome' = "pending"
            /\ mpc' = "loop"
            /\ ready' = Append(ready, Item("main", 0, 0))
            /\ ntodo' = 0
            /\ stopping' = FALSE
            /\ sleeping' = FALSE
            /\ tick' = 0
    /\ UNCHANGED <<registryVars, observerVars, watcherVars, emitted, loopClosed,
                   inRunAsync, historyVars>>

\* FSWatcher.start, called directly.
start ==
    /\ mpc = "free"
    /\ calls < quota.calls
    /\ calls' = calls + 1
    /\ UNCHANGED quota
    /\ lastCall' = "start"
    /\ pre' = Snapshot
    /\ preCallbacks' = callbacks
    /\ UNCHANGED stopCalledAt
    /\ IF CanStart(threadState)
       THEN threadState' = "alive" /\ outcome' = "ok"
       ELSE threadState' = threadState /\ outcome' = "RuntimeError"
    /\ UNCHANGED <<registryVars, adapters, handlers, stoppedEvent, watcherVars,
                   emitted, loopVars, mpc, inRunAsync, tick, historyVars>>

\* FSWatcher.stop, called directly: observer.stop() sets the stop event ...
stop ==
    /\ mpc = "free"
    /\ calls < quota.calls
    /\ calls' = calls + 1
    /\ UNCHANGED quota
    /\ lastCall' = "stop"
    /\ outcome' = "pending"
    /\ pre' = Snapshot
    /\ preCallbacks' = callbacks
    /\ stopCalledAt' = Len(submitted)
    /\ stoppedEvent' = TRUE
    /\ mpc' = "stop_lock"
    /\ inRunAsync' = FALSE
    /\ UNCHANGED <<registryVars, adapters, handlers, threadState, watcherVars,
                   emitted, loopVars, tick, historyVars>>

\* ... then unschedules every handler under the observer's lock ...
StopUnschedule ==
    /\ mpc = "stop_lock"
    /\ wpc = "idle"
    /\ handlers' = {}
    /\ mpc' = "stop_join"
    /\ UNCHANGED <<registryVars, adapters, threadState, stoppedEvent, watcherVars,
                   emitted, loopVars, inRunAsync, tick, lastCall, outcome, pre,
                   preCallbacks, stopCalledAt, historyVars>>
    /\ UNCHANGED budgetVars

\* ... and observer.join() waits for the observer thread. Joining a thread
\* that was never started raises RuntimeError.
StopJoin ==
    /\ mpc = "stop_join"
    /\ \/ /\ threadState = "new"
          /\ mpc' = "free"
          /\ outcome' = "RuntimeError"
          /\ UNCHANGED <<ready, stopReturned>>
       \/ /\ threadState # "new"
          /\ JoinReturns(threadState)
          /\ stopReturned' = TRUE
          /\ IF inRunAsync
             THEN /\ mpc' = "loop"
                  /\ outcome' = "ok"
                  /\ ready' = Append(ready, Item("done_cb", 0, 0))
             ELSE /\ mpc' = "free"
                  /\ outcome' = "ok"
                  /\ ready' = ready
    /\ inRunAsync' = FALSE
    /\ UNCHANGED <<registryVars, observerVars, watcherVars, emitted, loopClosed,
                   ntodo, stopping, sleeping, tick, lastCall, pre, preCallbacks,
                   stopCalledAt, passes, submitted, executed>>
    /\ UNCHANGED budgetVars

\* FSWatcher.run: an empty method.
run ==
    /\ mpc = "free"
    /\ calls < quota.calls
    /\ calls' = calls + 1
    /\ UNCHANGED quota
    /\ lastCall' = "run"
    /\ outcome' = "ok"
    /\ pre' = Snapshot
    /\ preCallbacks' = callbacks
    /\ UNCHANGED stopCalledAt
    /\ UNCHANGED <<registryVars, observerVars, watcherVars, emitted, loopVars,
                   mpc, inRunAsync, tick, historyVars>>

\* The owner of the event loop closes it (it cannot be closed while running).
CloseLoop ==
    /\ mpc = "free"
    /\ calls < quota.calls
    /\ calls' = calls + 1
    /\ UNCHANGED quota
    /\ ~loopClosed
    /\ loopClosed' = TRUE
    /\ ready' = <<>>
    /\ UNCHANGED <<registryVars, observerVars, watcherVars, emitted, ntodo,
                   stopping, sleeping, callVars, historyVars>>

\* ------------------------------------------------------------- event loop
\* One iteration of the loop (_run_once) runs the callbacks that are ready when
\* it begins; run_forever ends after the iteration in which stop() was called.
LoopIter ==
    /\ mpc = "loop"
    /\ ntodo = 0
    /\ IF stopping
       THEN /\ mpc' = "free"
            /\ stopping' = FALSE
            /\ ntodo' = 0
       ELSE /\ ready # <<>>
            /\ ntodo' = Len(ready)
            /\ UNCHANGED <<mpc, stopping>>
    /\ UNCHANGED <<registryVars, observerVars, watcherVars, emitted, loopClosed,
                   ready, sleeping, inRunAsync, tick, lastCall, outcome, pre,
                   preCallbacks, stopCalledAt, historyVars>>
    /\ UNCHANGED budgetVars

\* run_async up to its first await: validate and subscribe, start the
\* observer, go to sleep. An exception ends the task; the loop is then told to
\* stop by the done callback of run_until_complete.
RunAsyncBegin ==
    LET k == SubscribedPrefix(callbacks)
        ids == (Len(adapters) + 1) .. (Len(adapters) + k)
        built == [i \in 1..k |-> Adapter(callbacks[i], i)]
    IN  /\ wpc = "idle"
        /\ adapters' = adapters \o built
        /\ handlers' = handlers \cup ids
        /\ IF ~ReachesStart(k, Len(callbacks))
           THEN /\ outcome' = "Exception"
                /\ ready' = Append(Tail(ready), Item("done_cb", 0, 0))
                /\ UNCHANGED <<threadState, sleeping>>
           ELSE IF ~CanStart(threadState)
           THEN /\ outcome' = "RuntimeError"
                /\ ready' = Append(Tail(ready), Item("done_cb", 0, 0))
                /\ UNCHANGED <<threadState, sleeping>>
           ELSE /\ threadState' = "alive"
                /\ sleeping' = TRUE
                /\ ready' = Tail(ready)
                /\ UNCHANGED outcome
        /\ UNCHANGED <<stoppedEvent, mpc, inRunAsync, tick, lastCall, pre,
                       preCallbacks, stopCalledAt, historyVars>>

\* run_async resumed after a sleep: sleep again, or after the last one call
\* self.stop(), which blocks the loop's thread.
RunAsyncWakeup ==
    /\ tick' = tick + 1
    /\ ready' = Tail(ready)
    /\ IF tick + 1 < TICKS
       THEN /\ sleeping' = TRUE
            /\ UNCHANGED <<stoppedEvent, mpc, inRunAsync, stopCalledAt>>
       ELSE /\ stoppedEvent' = TRUE
            /\ mpc' = "stop_lock"
            /\ inRunAsync' = TRUE
            /\ stopCalledAt' = Len(submitted)
            /\ UNCHANGED sleeping
    /\ UNCHANGED <<adapters, handlers, threadState, lastCall, outcome, pre,
                   preCallbacks, historyVars>>

\* The callback at the head of loop._ready runs on the loop's thread.
LoopItem ==
    /\ mpc = "loop"
    /\ ntodo > 0
    /\ ntodo' = ntodo - 1
    /\ LET it == Head(ready)
       IN  CASE it.kind = "main" -> RunAsyncBegin
             [] it.kind = "wakeup" -> RunAsyncWakeup
             [] it.kind = "create_task" ->
                    \* asyncio.create_task(coroutine): the task's first step is queued
                    /\ ready' = Append(Tail(ready), Item("step", it.adapter, it.event))
                    /\ UNCHANGED <<observerVars, sleeping, callVars, historyVars>>
             [] it.kind = "create_task_none" ->
                    \* asyncio.create_task(None) raises inside the callback; the
                    \* loop reports it and goes on
                    /\ ready' = Tail(ready)
                    /\ UNCHANGED <<observerVars, sleeping, callVars, historyVars>>
             [] it.kind = "step" ->
                    \* the handler's body begins, on the loop's thread
                    /\ ready' = Tail(ready)
                    /\ \E fate \in quota.fates :
                          /\ executed' = Append(executed,
                                 [adapter |-> it.adapter, event |-> it.event,
                                  thread |-> "loop", fate |-> fate,
                                  seen |-> Len(submitted)])
                          /\ mpc' = IF fate = "blocks" THEN "blocked" ELSE mpc
                    /\ UNCHANGED <<observerVars, sleeping, inRunAsync, tick, lastCall,
                                   outcome, pre, preCallbacks, stopCalledAt, passes,
                                   submitted, stopReturned>>
             [] it.kind = "done_cb" ->
                    /\ ready' = Tail(ready)
                    /\ stopping' = TRUE
                    /\ UNCHANGED <<observerVars, sleeping, callVars, historyVars>>
    /\ LET k == Head(ready).kind
       IN  IF k = "done_cb" THEN TRUE ELSE UNCHANGED stopping
    /\ UNCHANGED <<registryVars, watcherVars, emitted, loopClosed>>
    /\ UNCHANGED budgetVars

\* The timer of asyncio.sleep(1) fires and run_async is made ready again. The
\* loop looks at its timers between two iterations.
Tick ==
    /\ mpc = "loop"
    /\ ntodo = 0
    /\ sleeping
    /\ sleeping' = FALSE
    /\ ready' = Append(ready, Item("wakeup", 0, 0))
    /\ UNCHANGED <<registryVars, observerVars, watcherVars, emitted, loopClosed,
                   ntodo, stopping, callVars, historyVars>>
    /\ UNCHANGED budgetVars

\* ------------------------------------------------ emitters, observer thread
\* An emitter of the running observer reports a raw event at or below a
\* watched path: the event is put on the observer's queue.
Emit ==
    /\ threadState = "alive"
    /\ Len(emitted) < quota.events
    /\ \E t \in quota.kinds, q \in EventPaths :
          LET ev == [event_type |-> t, src_path |-> q]
          IN  /\ \E a \in handlers : IsAncestorOrEqual(adapters[a].path, q)
              /\ emitted' = Append(emitted, ev)
              /\ eventQueue' = Append(eventQueue, Len(emitted) + 1)
    /\ UNCHANGED <<registryVars, observerVars, wpc, cur, pending, inDisp, loopVars,
                   callVars, historyVars>>
    /\ UNCHANGED budgetVars

\* event_queue.task_done(): event n has been handed to every subscribed handler.
PassOf(n) == [event |-> n, subscribed |-> handlers]

\* An observer thread that goes on whatever the stop event says.
KeepsRunning(se) == TRUE

\* BaseThread.should_keep_running(): the observer thread runs until stop()
\* (line 76) has set the stop event.
should_keep_running(se) == ~se

\* The observer thread takes the next event and, holding the observer's lock,
\* collects the handlers subscribed for the event's watch.
WatcherTake ==
    /\ threadState = "alive"
    /\ wpc = "idle"
    /\ should_keep_running(stoppedEvent)
    /\ eventQueue # <<>>
    /\ LET n == Head(eventQueue)
           hs == {a \in handlers : Covers(a, n)}
       IN  /\ eventQueue' = Tail(eventQueue)
           /\ pending' = hs
           /\ cur' = IF hs = {} THEN 0 ELSE n
           /\ wpc' = IF hs = {} THEN "idle" ELSE "pass"
           /\ passes' = IF hs = {} THEN passes \cup {PassOf(n)} ELSE passes
    /\ UNCHANGED <<registryVars, observerVars, emitted, inDisp, loopVars, callVars,
                   budgetVars, submitted, executed, stopReturned>>

\* The observer thread leaves its run loop once the stop event is set.
WatcherExit ==
    /\ threadState = "alive"
    /\ wpc = "idle"
    /\ ~should_keep_running(stoppedEvent)
    /\ threadState' = "dead"
    /\ UNCHANGED <<registryVars, adapters, handlers, stoppedEvent, watcherVars,
                   emitted, loopVars, callVars, historyVars>>
    /\ UNCHANGED budgetVars

\* FSAsyncEventHandler.dispatch, line 39: the filter.
Triggers(ad, ev) == ev.event_type = ad.event_type_trigger

\* Calling callback_function(event): a coroutine function only builds a
\* coroutine object; any other function runs its body right there.
RunsInline(f) == ~iscoroutinefunction(f)

\* What is left of a pass over the handlers once adapter a has been called.
AfterDispatch(a) ==
    /\ pending' = pending \ {a}
    /\ inDisp' = 0
    /\ cur' = IF pending = {a} THEN 0 ELSE cur
    /\ wpc' = IF pending = {a} THEN "idle" ELSE "pass"
    /\ passes' = IF pending = {a} THEN passes \cup {PassOf(cur)} ELSE passes

\* The observer thread calls dispatch(event) of one subscribed adapter. On a
\* match the coroutine is built and call_soon_threadsafe queues
\* create_task(coroutine) on the adapter's loop (`ready` is the queue of the
\* loop the session drives); a closed loop makes it raise, and the exception
\* unwinds through the observer thread's run loop.
Dispatch ==
    /\ threadState = "alive"
    /\ wpc = "pass"
    /\ \E a \in pending :
          LET ad == adapters[a]
              inline == RunsInline(ad.callback_function)
          IN  IF ~Triggers(ad, emitted[cur])
              THEN /\ AfterDispatch(a)
                   /\ UNCHANGED <<threadState, ready, submitted, executed>>
              ELSE /\ executed' =
                          IF inline
                          THEN Append(executed,
                                   [adapter |-> a, event |-> cur, thread |-> "watcher",
                                    fate |-> "returns", seen |-> Len(submitted)])
                          ELSE executed
                   /\ IF ad.loop = FSWatcher_loop /\ loopClosed
                      THEN /\ threadState' = "dead"
                           /\ wpc' = "idle"
                           /\ pending' = {}
                           /\ cur' = 0
                           /\ inDisp' = 0
                           /\ UNCHANGED <<ready, submitted, passes>>
                      ELSE /\ ready' =
                                  IF ad.loop = FSWatcher_loop
                                  THEN Append(ready,
                                         Item(IF inline THEN "create_task_none"
                                                        ELSE "create_task", a, cur))
                                  ELSE ready
                           /\ submitted' = Append(submitted, [adapter |-> a, event |-> cur])
                           /\ wpc' = "in_dispatch"
                           /\ inDisp' = a
                           /\ UNCHANGED <<threadState, pending, cur, passes>>
    /\ UNCHANGED <<registryVars, adapters, handlers, stoppedEvent, eventQueue,
                   emitted, loopClosed, ntodo, stopping, sleeping, callVars,
                   stopReturned>>
    /\ UNCHANGED budgetVars

\* A hand-over that waits for the handler's result before it returns.
ReturnsWithResult(a, n) ==
    \E i \in DOMAIN executed :
        /\ executed[i].adapter = a
        /\ executed[i].event = n
        /\ executed[i].fate = "returns"

\* call_soon_threadsafe (line 40) queues the callback, wakes the loop and
\* returns: it waits neither for the loop nor for the handler.
SubmitReturns(a, n) == TRUE

\* call_soon_threadsafe and dispatch return to the observer thread.
DispatchReturn ==
    /\ threadState = "alive"
    /\ wpc = "in_dispatch"
    /\ SubmitReturns(inDisp, cur)
    /\ AfterDispatch(inDisp)
    /\ UNCHANGED <<registryVars, observerVars, eventQueue, emitted, loopVars,
                   callVars, submitted, executed, stopReturned>>
    /\ UNCHANGED budgetVars

\* ------------------------------------------------------------ specification
Next ==
    \/ on_any
    \/ on_moved
    \/ on_created
    \/ on_deleted
    \/ on_modified
    \/ watch
    \/ start
    \/ stop
    \/ StopUnschedule
    \/ StopJoin
    \/ run
    \/ CloseLoop
    \/ LoopIter
    \/ LoopItem
    \/ Tick
    \/ Emit
    \/ WatcherTake
    \/ WatcherExit
    \/ Dispatch
    \/ DispatchReturn

Spec == Init /\ [][Next]_vars

SpecRun == InitRun /\ [][Next]_vars

SpecSessions == InitSessions /\ [][Next]_vars

SpecRegistry == InitRegistry /\ [][Next]_vars

SpecHandlers == InitHandlers /\ [][Next]_vars

\* The threads keep running: the thread that drives the loop takes its next
\* step (also inside stop), the loop's timers fire, and the observer thread
\* takes its next step. Nothing is assumed of the caller's calls, of the
\* registrations or of the file system.
Fairness ==
    /\ WF_vars(LoopIter)
    /\ WF_vars(LoopItem)
    /\ WF_vars(Tick)
    /\ WF_vars(StopUnschedule)
    /\ WF_vars(StopJoin)
    /\ WF_vars(WatcherTake)
    /\ WF_vars(WatcherExit)
    /\ WF_vars(Dispatch)
    /\ WF_vars(DispatchReturn)

SpecLive == InitLive /\ [][Next]_vars /\ Fairness

\* ------------------------------------------------------------------ claims
Requests == {submitted[j] : j \in DOMAIN submitted}
Request(a, n) == [adapter |-> a, event |-> n]

\* C1 (as amended): no handler body ever executes on the observer thread; a
\* handler begins only on the event loop's thread, and only after dispatch has
\* submitted the scheduling request for it.
C1_HandlerRunsOnLoopAfterSubmit ==
    \A i \in DOMAIN executed :
        /\ executed[i].thread = "loop"
        /\ Request(executed[i].adapter, executed[i].event) \in Requests

\* A handler has begun on the loop after the dispatch that submitted it returned.
C1_Witness ==
    /\ executed # <<>>
    /\ wpc = "idle"
    /\ \A i \in DOMAIN executed : executed[i].thread = "loop"

\* C1 as stated: moreover a handler never begins before the dispatch that
\* submitted it has returned to the observer thread.
C1_HandlerBeginsAfterDispatchReturned ==
    \A i \in DOMAIN executed :
        /\ executed[i].thread = "loop"
        /\ ~(wpc = "in_dispatch" /\ inDisp = executed[i].adapter
                                  /\ cur = executed[i].event)


\* The filter the specification asks for: the registration's kind is the
\* wildcard or the notification's kind, and its path is at or above the
\* notification's path.
SpecMatches(cb, ev) ==
    /\ cb.event_type = EVENT_TYPE_ANY \/ cb.event_type = ev.event_type
    /\ IsAncestorOrEqual(cb.event_path, ev.src_path)

RegOf(a) == callbacks[adapters[a].reg]

\* C2: for every registration subscribed and every raw notification the
\* observer has dispatched, the registration's adapter submitted a scheduling
\* request for it if and only if the registration's kind is Any or the
\* notification's kind and its path is an ancestor-or-equal of the
\* notification's path.
C2_SubmitsIffMatches ==
    \A p \in passes : \A a \in p.subscribed :
        (Request(a, p.event) \in Requests) <=> SpecMatches(RegOf(a), emitted[p.event])

ReqCount(i, n) ==
    Cardinality({j \in DOMAIN submitted :
                    adapters[submitted[j].adapter].reg = i /\ submitted[j].event = n})

\* C3: each raw notification dispatched while the session runs has produced
\* exactly one scheduling request for each subscribed registration it matches,
\* and none for a registration it does not match.
C3_ExactlyOneRequestPerMatch ==
    \A p \in passes : \A i \in {adapters[a].reg : a \in p.subscribed} :
        ReqCount(i, p.event) = IF SpecMatches(callbacks[i], emitted[p.event]) THEN 1 ELSE 0

\* C4: when the start of the session fails because a handler is not
\* asynchronous, the failed call has subscribed no adapter to the observer.
C4_ConfigErrorSubscribesNothing ==
    (lastCall = "watch" /\ outcome = "Exception") => handlers \ pre.handlers = {}

\* C5: when the start of the session fails because a handler is not
\* asynchronous, the observer is not started and the observer's state
\* (subscriptions, thread, stop event) is what it was before the call.
C5_ConfigErrorLeavesSessionAsBefore ==
    (lastCall = "watch" /\ outcome = "Exception") =>
        /\ threadState = pre.threadState
        /\ stoppedEvent = pre.stoppedEvent
        /\ handlers = pre.handlers
        /\ pre.threadState = "new" => eventQueue = <<>> /\ wpc = "idle"

\* C6: once stop has returned the observer thread has terminated, and from
\* then on no adapter's dispatch is called and no request is submitted, also
\* not for notifications still buffered in the observer's queue.
C6_NoDispatchAfterStop ==
    /\ [](stopReturned => threadState = "dead" /\ wpc = "idle")
    /\ [][stopReturned => UNCHANGED <<wpc, cur, pending, inDisp, passes, submitted>>]_vars

\* stop has returned while a notification was still buffered, after another
\* one had been dispatched.
C6_Witness ==
    /\ stopReturned
    /\ eventQueue # <<>>
    /\ submitted # <<>>

\* C7: for two notifications that match a subscribed registration and were
\* dispatched in that order by the observer thread, the scheduling request for
\* the first is submitted before the request for the second, and the handler
\* for the first does not begin after the handler for the second.
C7_MatchingSubmittedInOrder ==
    \A p1, p2 \in passes : \A a \in p1.subscribed \cap p2.subscribed :
        ( /\ p1.event < p2.event
          /\ SpecMatches(RegOf(a), emitted[p1.event])
          /\ SpecMatches(RegOf(a), emitted[p2.event]) )
        => /\ \E i, j \in DOMAIN submitted :
                 /\ i < j
                 /\ submitted[i] = Request(a, p1.event)
                 /\ submitted[j] = Request(a, p2.event)
           /\ \A i, j \in DOMAIN executed :
                 ( /\ executed[i].adapter = a /\ executed[i].event = p2.event
                   /\ executed[j].adapter = a /\ executed[j].event = p1.event )
                 => j < i

\* C8: a lifecycle call succeeds only in the right state: start only on a
\* session that was Idle, stop only on a session that was Running; in any
\* other state the call fails with an error.
C8_WrongStateCallsRejected ==
    /\ (lastCall = "start" /\ outcome = "ok") => pre.threadState = "new"
    /\ (lastCall = "stop" /\ outcome = "ok") => pre.threadState = "alive"

\* C9: a lifecycle call rejected because of the session's state leaves the
\* observer as it was when the call was made.
C9_RejectedCallChangesNothing ==
    (lastCall \in {"start", "stop"} /\ outcome = "RuntimeError") => Snapshot = pre

\* C10: no failure escapes dispatch into the observer thread: the thread ends
\* only when the session is stopped, never because the loop rejected a request.
C10_WatcherSurvivesClosedLoop ==
    threadState = "dead" => stoppedEvent

\* C11: stopping the session strands no handler task: once the bounded run
\* driven by watch has returned, the handler of every scheduling request
\* submitted before the stop has begun executing on the event loop.
C11_SubmittedRunsDespiteStop ==
    (lastCall = "watch" /\ outcome = "ok" /\ mpc = "free") =>
        \A j \in 1..stopCalledAt :
            \E i \in DOMAIN executed :
                /\ executed[i].adapter = submitted[j].adapter
                /\ executed[i].event = submitted[j].event

\* The event kind each decorator stands for.
DecoratorKind ==
    [on_any |-> EVENT_TYPE_ANY, on_moved |-> EVENT_TYPE_MOVED,
     on_created |-> EVENT_TYPE_CREATED, on_deleted |-> EVENT_TYPE_DELETED,
     on_modified |-> EVENT_TYPE_MODIFIED]

\* C12: a registration call appends exactly one Registration, carrying the
\* decorator's kind, the given path and the given handler, at the end of the
\* registry, leaves the earlier Registrations unchanged and in order, and
\* returns the very handler it was given, whether it is asynchronous or not.
C12_RegistrationAppendsOne ==
    /\ [](lastReg.decorator # "none" =>
            /\ callbacks # <<>>
            /\ callbacks[Len(callbacks)] =
                   FSCallback(DecoratorKind[lastReg.decorator], lastReg.path,
                              lastReg.handler)
            /\ lastReg.returned = lastReg.handler)
    /\ [][ \/ /\ callbacks' = callbacks
              /\ lastReg' = lastReg
           \/ /\ Len(callbacks') = Len(callbacks) + 1
              /\ SubSeq(callbacks', 1, Len(callbacks)) = callbacks ]_vars

\* A handler that is not asynchronous was registered after another handler.
C12_Witness ==
    /\ Len(callbacks) = 2
    /\ lastReg.handler = "sync_handler"
    /\ callbacks[1] # callbacks[2]

\* C13: start() makes the same transition as the bounded run: when it has
\* succeeded every handler registered at the call is asynchronous and every
\* Registration present at the call has an adapter subscribed to the observer.
C13_StartValidatesAndSubscribes ==
    (lastCall = "start" /\ outcome = "ok") =>
        \A i \in DOMAIN preCallbacks :
            /\ iscoroutinefunction(preCallbacks[i].callback_function)
            /\ \E a \in handlers : adapters[a].reg = i

\* C17: the registry is not mutated after start: once a session has been
\* started (by start or by watch) the registry is what it was at that call.
C17_RegistryFrozenAfterStart ==
    (lastCall \in {"start", "watch"} /\ pre.threadState = "new"
        /\ threadState # "new") => callbacks = preCallbacks

\* The adapters subscribed for the i-th Registration present at the last call.
SubscribedFor(i) ==
    {a \in handlers : /\ adapters[a].reg = i
                      /\ adapters[a].path = preCallbacks[i].event_path}

\* C14: in no state is the observer running, started by the last lifecycle
\* call, while a Registration present at that call does not have exactly one
\* adapter subscribed for its watch path.
C14_RunningMeansAllSubscribed ==
    (lastCall \in {"start", "watch"} /\ pre.threadState = "new"
        /\ threadState = "alive" /\ ~stoppedEvent) =>
        \A i \in DOMAIN preCallbacks : Cardinality(SubscribedFor(i)) = 1

C16_DispatchIgnoresHandlers ==
    /\ (threadState = "alive" /\ wpc = "in_dispatch") => ENABLED DispatchReturn
    /\ (threadState = "alive" /\ wpc = "pass") => ENABLED Dispatch
    /\ threadState = "dead" => (stoppedEvent \/ loopClosed)
    /\ \A p \in passes : \A a \in p.subscribed :
           (Covers(a, p.event) /\ Triggers(adapters[a], emitted[p.event]))
               => Request(a, p.event) \in Requests

\* A handler blocks the loop's thread for good, and a notification dispatched
\* after that was still submitted and its dispatch has returned.
C16_Witness ==
    /\ mpc = "blocked"
    /\ wpc = "idle"
    /\ \E i \in DOMAIN executed :
           /\ executed[i].fate = "blocks"
           /\ Len(submitted) > executed[i].seen
           /\ \E p \in passes : submitted[Len(submitted)].event = p.event

\* Every handler in the registry is a coroutine function.
AllAsync == \A i \in DOMAIN callbacks : iscoroutinefunction(callbacks[i].callback_function)

\* C18: the bounded run terminates. With only asynchronous handlers, which
\* yield, a watch() that has been called eventually returns normally, after
\* the 20 ticks, with stop returned and the observer thread terminated.
C18_BoundedRunTerminates ==
    (lastCall = "watch" /\ outcome = "pending" /\ AllAsync)
        ~> (/\ mpc = "free"
            /\ outcome = "ok"
            /\ tick = TICKS
            /\ stopReturned
            /\ threadState = "dead")

\* watch has returned after its 20 ticks, having handed over notifications.
C18_Witness ==
    /\ lastCall = "watch"
    /\ mpc = "free"
    /\ outcome = "ok"
    /\ tick = TICKS
    /\ threadState = "dead"
    /\ Len(submitted) = 2

\* C19: the stop called by run_async on the loop's thread never deadlocks with
\* dispatch: whatever the observer thread is doing when stop is called, its
\* dispatch completes, the thread terminates and stop returns.
C19_StopInRunAsyncReturns ==
    (inRunAsync /\ mpc \in {"stop_lock", "stop_join"})
        ~> (~inRunAsync /\ stopReturned /\ threadState = "dead" /\ wpc = "idle")

\* The stop called by run_async has returned, and a request was submitted to
\* the loop by a dispatch that ran while that stop was in progress.
C19_Witness ==
    /\ lastCall = "watch"
    /\ stopReturned
    /\ threadState = "dead"
    /\ Len(submitted) > stopCalledAt

\* C20: sessions are isolated: every Registration in the registry of an
\* FSWatcher instance was made through that instance.
C20_SessionsIsolated ==
    \A w \in Watchers :
        \A i \in DOMAIN InstanceCallbacks(w) : owner[i] = w

====
